---------------------------- MODULE Spec2Model ----------------------------
(***************************************************************************)
(* A model of the CartPole sandbox demo: the DemoState store               *)
(* (models/demo_state.py), the per-sandbox worker run_sandbox              *)
(* (sandbox/runner.py), the two orchestrators (main.py: all at once, with  *)
(* the render loop on the submitting thread; streamlit_app.py: batched     *)
(* submission on a background thread, rendering on script reruns) and the  *)
(* dashboard projection build_dashboard (dashboard/builder.py).            *)
(*                                                                         *)
(* Numbers: scores are integers (201 for 201.0), a learning rate is in     *)
(* thousandths (10 for 0.01), avg_final is in tenths (1867 for 186.7).     *)
(* Python's None is the value None below.                                  *)
(***************************************************************************)
EXTENDS Integers, Sequences, FiniteSets, TLC

\* ------------------------------------------------------------------ bounds
MaxTotal == 2
MaxWorkersArg == 1
MaxBatch == 1
MaxLines == 2
MaxBatchTotal == 4
MaxBatchSize == 3
MaxStatRecords == 3

\* ------------------------------------------------------- program constants
PoolCeiling == 200
DefaultLr == 10
None == -1

Indices == 0 .. (MaxTotal - 1)

\* ------------------------------------------------------------ result record
\* The placeholder id f"sb-{index:05d}" and the id the provisioning API
\* assigns (sandbox.id).
PlaceholderId(index) == <<"sb", index>>
AssignedId(index) == <<"id", index>>

SandboxResult(sandbox_id, index) ==
    [sandbox_id |-> sandbox_id, index |-> index, status |-> "pending",
     episode |-> 0, avg_100 |-> 0, best |-> 0, solved |-> FALSE,
     solved_at |-> None, elapsed_s |-> 0, lr |-> DefaultLr, error |-> ""]

\* dict.get(key, default)
Get(data, key, default) == IF key \in DOMAIN data THEN data[key] ELSE default

\* ------------------------------------------------------------------- store
\* `if index not in self.results: self.results[index] = SandboxResult(...)`
ensure(res, index, sandbox_id) ==
    IF index \in DOMAIN res
    THEN res
    ELSE [k \in DOMAIN res \cup {index} |->
            IF k = index THEN SandboxResult(sandbox_id, index) ELSE res[k]]

is_terminal_report(data) == Get(data, "status", "") = "complete"

\* The status update() writes for a report (line 21 or line 29).
update_status(r, data) ==
    IF is_terminal_report(data) THEN "complete" ELSE "running"

\* update(), first part: the record is there, r.sandbox_id and r.status
\* are written (lines 16-21 and 29).
update_begin(res, index, sandbox_id, data) ==
    LET res1 == ensure(res, index, sandbox_id)
        r == res1[index]
    IN [res1 EXCEPT ![index] =
          [r EXCEPT !.sandbox_id = sandbox_id,
                    !.status = update_status(r, data)]]

\* update(), second part: the remaining field writes of the branch taken
\* (lines 22-27 or 30-32). (The variant before it: a terminal report always
\* marks the record solved.)
update_fields_solved_always(res, index, data) ==
    LET r == res[index]
    IN [res EXCEPT ![index] =
          IF is_terminal_report(data)
          THEN [r EXCEPT !.avg_100 = Get(data, "final_avg", 0),
                         !.best = Get(data, "best", 0),
                         !.solved = TRUE,
                         !.solved_at = Get(data, "solved_at", None),
                         !.elapsed_s = Get(data, "elapsed_s", 0),
                         !.lr = Get(data, "lr", DefaultLr)]
          ELSE [r EXCEPT !.episode = Get(data, "episode", 0),
                         !.avg_100 = Get(data, "avg_100", 0),
                         !.solved = Get(data, "solved", FALSE)]]

update_fields(res, index, data) ==
    LET r == res[index]
    IN [res EXCEPT ![index] =
          IF is_terminal_report(data)
          THEN [r EXCEPT !.avg_100 = Get(data, "final_avg", 0),
                         !.best = Get(data, "best", 0),
                         !.solved = Get(data, "solved", FALSE),
                         !.solved_at = Get(data, "solved_at", None),
                         !.elapsed_s = Get(data, "elapsed_s", 0),
                         !.lr = Get(data, "lr", DefaultLr)]
          ELSE [r EXCEPT !.episode = Get(data, "episode", 0),
                         !.avg_100 = Get(data, "avg_100", 0),
                         !.solved = Get(data, "solved", FALSE)]]

update(res, index, sandbox_id, data) ==
    update_fields(update_begin(res, index, sandbox_id, data), index, data)

\* mark_error(), second part: the two field writes (lines 38-39). (The
\* variants before it: the status write alone, a message written only when
\* none is there yet, and the message write alone.)
mark_error_fields_message_only(res, index, msg) ==
    [res EXCEPT ![index] = [@ EXCEPT !.error = msg]]

mark_error_fields_status_only(res, index, msg) ==
    [res EXCEPT ![index] = [@ EXCEPT !.status = "error"]]

mark_error_fields_keep_first(res, index, msg) ==
    [res EXCEPT ![index] =
       [@ EXCEPT !.status = "error",
                 !.error = IF @ = "" THEN msg ELSE @]]

mark_error_fields(res, index, msg) ==
    [res EXCEPT ![index] = [@ EXCEPT !.status = "error", !.error = msg]]

mark_error(res, index, sandbox_id, msg) ==
    mark_error_fields(ensure(res, index, sandbox_id), index, msg)

\* mark_running(), second part: the status write (line 45). (The variants
\* before it: no status write, and a status write to every record.)
mark_running_fields_noop(res, index) == res

mark_running_fields_all(res, index) ==
    [k \in DOMAIN res |-> [res[k] EXCEPT !.status = "running"]]

mark_running_fields(res, index) ==
    [res EXCEPT ![index] = [@ EXCEPT !.status = "running"]]

mark_running(res, index, sandbox_id) ==
    mark_running_fields(ensure(res, index, sandbox_id), index)

\* ------------------------------------------------------ computed statistics
RECURSIVE SumOver(_, _)
SumOver(res, keys) ==
    IF keys = {} THEN 0
    ELSE LET k == CHOOSE x \in keys : TRUE
         IN res[k].avg_100 + SumOver(res, keys \ {k})

WithStatus(res, s) == {k \in DOMAIN res : res[k].status = s}

n_complete(res) == Cardinality(WithStatus(res, "complete"))
n_running(res) == Cardinality(WithStatus(res, "running"))
n_error(res) == Cardinality(WithStatus(res, "error"))
n_solved(res) == Cardinality({k \in DOMAIN res : res[k].solved})

\* round(x, 1) of num / den, in tenths, for num >= 0: the nearest tenth.
RoundTenths(num, den) == (20 * num + den) \div (2 * den)

avg_final_all_records(res) ==
    IF DOMAIN res = {} THEN 0
    ELSE RoundTenths(SumOver(res, DOMAIN res), Cardinality(DOMAIN res))

avg_final(res) ==
    LET vals == WithStatus(res, "complete")
    IN IF vals = {} THEN 0
       ELSE RoundTenths(SumOver(res, vals), Cardinality(vals))

\* build_dashboard's locals before any is read, and the absence of a
\* rendering.
NoLocals ==
    [n_done |-> 0, n_run |-> 0, n_pend |-> 0, n_err |-> 0, n_solved |-> 0,
     avg |-> 0]

NoFrame == [shown |-> FALSE, stats |-> NoLocals, rows |-> <<>>]

\* ------------------------------------------------------- remote task output
\* A stdout line, by what run_sandbox asks of it: brace is
\* line.strip().startswith("{"), valid is whether json.loads accepts it, and
\* obj is the parsed object. The shapes are the ones cartpole_task.py prints
\* (an intermediate report, a terminal report) and diagnostic text.
Lines ==
    << [brace |-> FALSE, valid |-> FALSE, obj |-> [x \in {} |-> 0]],
       [brace |-> TRUE, valid |-> FALSE, obj |-> [x \in {} |-> 0]],
       [brace |-> TRUE, valid |-> TRUE,
        obj |-> [episode |-> 100, avg_100 |-> 196, solved |-> TRUE,
                 solved_at |-> 90]],
       [brace |-> TRUE, valid |-> TRUE,
        obj |-> [status |-> "complete", final_avg |-> 201, best |-> 300,
                 solved |-> TRUE, solved_at |-> 90, elapsed_s |-> 7,
                 lr |-> 5]] >>

LineIds == 1 .. Len(Lines)

\* `if line.startswith("{"): try: data = json.loads(line) ... except
\* json.JSONDecodeError: pass`: whether the line reaches state.update. (The
\* variant before it: every line that starts with a brace does.)
is_report_brace_only(l) == Lines[l].brace
is_report(l) == Lines[l].brace /\ Lines[l].valid

\* ------------------------------------------------------------------- state
VARIABLES
    mode,         \* "main" (main.py) or "batched" (streamlit_app.py)
    total,        \* --sandboxes / the Sandboxes input
    workers_arg,  \* --workers; 0 is both "not given" and 0 (`or` takes the default)
    batch_size,   \* the Batch size input (unused in main.py)
    workers,      \* the executor's max_workers, 0 before it exists
    results,      \* DemoState.results: index -> SandboxResult
    lock,         \* DemoState.lock: the set of its holders (empty or one worker)
    pc,           \* where each unit's run_sandbox call is
    sandbox,      \* the unit's environment: "none", "live", "deleted", "delete_failed"
    sandbox_id,   \* run_sandbox's local sandbox_id
    exc,          \* str(e) of the exception run_sandbox caught, "" if none
    cur,          \* the line whose report update() is applying, 0 if none
    nlines,       \* stdout lines run_sandbox has consumed
    install_rc,   \* the exit status of the pip install command, from its return
                  \* until the next statement has run: "none", "ok", "nonzero"
    deleteCalls,  \* calls of daytona.delete for the unit's environment
    raised,       \* whether run_sandbox ended by raising (the future holds an exception)
    sub_pc,       \* the submitting thread
    next_submit,  \* the next index to submit
    delays,       \* time.sleep(batch_delay) calls made so far
    r_pc,         \* the render loop: "idle", "stats", "sample", "table", "end", "crashed"
    r_pos,        \* the position in StatOrder of the read under way, 0 if none
    r_iter,       \* the keys of results when the running dict iteration began
    final,        \* whether the rendering under way is the one after all joined
    loc,          \* build_dashboard's locals read so far
    keys,         \* the record references `sample` holds
    frame,        \* the rendering the step just taken handed to the display
                  \* (live.update / the script run's output), NoFrame if none
    run           \* "running", "complete" (the run was declared complete), "crashed"

cfg_vars == <<mode, total, workers_arg, batch_size>>
worker_vars == <<pc, sandbox, sandbox_id, exc, cur, nlines, install_rc,
                 deleteCalls, raised>>
orch_vars == <<workers, sub_pc, next_submit, delays>>
render_vars == <<r_pc, r_pos, r_iter, final, loc, keys, run>>
vars == <<cfg_vars, results, lock, worker_vars, orch_vars, render_vars, frame>>

Min(a, b) == IF a <= b THEN a ELSE b

Units == 0 .. (total - 1)

\* Positions of run_sandbox between being picked up by a pool thread and
\* returning.
InFlight == {"create", "mark_running", "mark_running_2", "upload", "install",
             "exec", "parse", "update_2", "except", "mark_error_2", "finally"}

Active == {i \in Units : pc[i] \in InFlight}
AllDone == \A i \in Units : pc[i] = "done"

\* ------------------------------------------------------------- unit worker
\* ThreadPoolExecutor(max_workers=workers): a queued call starts when fewer
\* than max_workers calls are running. (The variant before it: a pool that
\* starts every queued call at once.)
pool_may_start_unbounded(active, max_workers) == TRUE
pool_may_start(active, max_workers) == Cardinality(active) < max_workers

\* A pool thread takes the oldest queued call (the work queue is FIFO).
Start(i) ==
    /\ pc[i] = "queued"
    /\ \A j \in Units : pc[j] = "queued" => i <= j
    /\ pool_may_start(Active, workers)
    /\ pc' = [pc EXCEPT ![i] = "create"]
    /\ UNCHANGED <<cfg_vars, results, lock, sandbox, sandbox_id, exc, cur,
                   nlines, install_rc, deleteCalls, raised, orch_vars,
                   render_vars>>
    /\ frame' = NoFrame

\* daytona.create(...): returns an environment or raises.
Create(i) ==
    /\ pc[i] = "create"
    /\ \/ /\ sandbox' = [sandbox EXCEPT ![i] = "live"]
          /\ sandbox_id' = [sandbox_id EXCEPT ![i] = AssignedId(i)]
          /\ pc' = [pc EXCEPT ![i] = "mark_running"]
          /\ exc' = exc
       \/ /\ exc' = [exc EXCEPT ![i] = "create failed"]
          /\ pc' = [pc EXCEPT ![i] = "except"]
          /\ UNCHANGED <<sandbox, sandbox_id>>
    /\ UNCHANGED <<cfg_vars, results, lock, cur, nlines, install_rc,
                   deleteCalls, raised, orch_vars, render_vars>>
    /\ frame' = NoFrame

\* The end of a `with self.lock:` block entered by unit i: the lock is
\* released. (The variant before it: an acquire that nothing releases.)
released_never(l, i) == l
released(l, i) == l \ {i}

\* state.mark_running: the lock is taken and the record inserted if absent.
MarkRunning1(i) ==
    /\ pc[i] = "mark_running"
    /\ lock = {}
    /\ lock' = {i}
    /\ results' = ensure(results, i, sandbox_id[i])
    /\ pc' = [pc EXCEPT ![i] = "mark_running_2"]
    /\ UNCHANGED <<cfg_vars, sandbox, sandbox_id, exc, cur, nlines, install_rc,
                   deleteCalls, raised, orch_vars, render_vars>>
    /\ frame' = NoFrame

\* state.mark_running: the status write, and the lock is released.
MarkRunning2(i) ==
    /\ pc[i] = "mark_running_2"
    /\ results' = mark_running_fields(results, i)
    /\ lock' = released(lock, i)
    /\ pc' = [pc EXCEPT ![i] = "upload"]
    /\ UNCHANGED <<cfg_vars, sandbox, sandbox_id, exc, cur, nlines, install_rc,
                   deleteCalls, raised, orch_vars, render_vars>>
    /\ frame' = NoFrame

\* sandbox.fs.upload_file(...): returns or raises.
Upload(i) ==
    /\ pc[i] = "upload"
    /\ \/ /\ pc' = [pc EXCEPT ![i] = "install"]
          /\ exc' = exc
       \/ /\ exc' = [exc EXCEPT ![i] = "upload failed"]
          /\ pc' = [pc EXCEPT ![i] = "except"]
    /\ UNCHANGED <<cfg_vars, results, lock, sandbox, sandbox_id, cur, nlines,
                   install_rc, deleteCalls, raised, orch_vars, render_vars>>
    /\ frame' = NoFrame

\* What run_sandbox does with the response of the pip install command: the
\* response is not looked at, the next statement runs.
after_install(rc) == "exec"

\* sandbox.process.exec("pip install gymnasium --quiet", timeout=120):
\* returns a response (exit code 0 or not) or raises (the timeout included).
Install(i) ==
    /\ pc[i] = "install"
    /\ \/ \E rc \in {"ok", "nonzero"} :
            /\ install_rc' = [install_rc EXCEPT ![i] = rc]
            /\ pc' = [pc EXCEPT ![i] = after_install(rc)]
            /\ exc' = [exc EXCEPT ![i] =
                         IF after_install(rc) = "except"
                         THEN "install failed" ELSE @]
       \/ /\ exc' = [exc EXCEPT ![i] = "install failed"]
          /\ pc' = [pc EXCEPT ![i] = "except"]
          /\ install_rc' = install_rc
    /\ UNCHANGED <<cfg_vars, results, lock, sandbox, sandbox_id, cur, nlines,
                   deleteCalls, raised, orch_vars, render_vars>>
    /\ frame' = NoFrame

\* sandbox.process.exec("python ... cartpole_task.py ...", timeout=30):
\* returns the captured stdout or raises (the timeout included).
Exec(i) ==
    /\ pc[i] = "exec"
    /\ \/ /\ pc' = [pc EXCEPT ![i] = "parse"]
          /\ exc' = exc
       \/ /\ exc' = [exc EXCEPT ![i] = "exec failed"]
          /\ pc' = [pc EXCEPT ![i] = "except"]
    /\ install_rc' = [install_rc EXCEPT ![i] = "none"]
    /\ UNCHANGED <<cfg_vars, results, lock, sandbox, sandbox_id, cur, nlines,
                   deleteCalls, raised, orch_vars, render_vars>>
    /\ frame' = NoFrame

\* The loop over response.result.splitlines(), a line that is not a report:
\* it is skipped. The remote task decides its output, so the next line is
\* any line, chosen when the loop reaches it.
ParseSkip(i) ==
    /\ pc[i] = "parse"
    /\ nlines[i] < MaxLines
    /\ \E l \in LineIds :
         /\ ~is_report(l)
         /\ nlines' = [nlines EXCEPT ![i] = @ + 1]
    /\ UNCHANGED <<cfg_vars, results, lock, pc, sandbox, sandbox_id, exc, cur,
                   install_rc, deleteCalls, raised, orch_vars, render_vars>>
    /\ frame' = NoFrame

\* A line that is a report: state.update takes the lock and writes
\* sandbox_id and status.
Update1(i) ==
    /\ pc[i] = "parse"
    /\ nlines[i] < MaxLines
    /\ lock = {}
    /\ \E l \in LineIds :
         /\ is_report(l)
         /\ nlines' = [nlines EXCEPT ![i] = @ + 1]
         /\ cur' = [cur EXCEPT ![i] = l]
         /\ results' = update_begin(results, i, sandbox_id[i], Lines[l].obj)
    /\ lock' = {i}
    /\ pc' = [pc EXCEPT ![i] = "update_2"]
    /\ UNCHANGED <<cfg_vars, sandbox, sandbox_id, exc, install_rc,
                   deleteCalls, raised, orch_vars, render_vars>>
    /\ frame' = NoFrame

\* state.update: the remaining field writes, and the lock is released.
Update2(i) ==
    /\ pc[i] = "update_2"
    /\ results' = update_fields(results, i, Lines[cur[i]].obj)
    /\ lock' = released(lock, i)
    /\ cur' = [cur EXCEPT ![i] = 0]
    /\ pc' = [pc EXCEPT ![i] = "parse"]
    /\ UNCHANGED <<cfg_vars, sandbox, sandbox_id, exc, nlines, install_rc,
                   deleteCalls, raised, orch_vars, render_vars>>
    /\ frame' = NoFrame

\* The output has no further line: the try block ends.
ParseEnd(i) ==
    /\ pc[i] = "parse"
    /\ pc' = [pc EXCEPT ![i] = "finally"]
    /\ UNCHANGED <<cfg_vars, results, lock, sandbox, sandbox_id, exc, cur,
                   nlines, install_rc, deleteCalls, raised, orch_vars,
                   render_vars>>
    /\ frame' = NoFrame

\* `except Exception as e: state.mark_error(...)`: the lock is taken and the
\* record inserted if absent.
MarkError1(i) ==
    /\ pc[i] = "except"
    /\ lock = {}
    /\ lock' = {i}
    /\ results' = ensure(results, i, sandbox_id[i])
    /\ pc' = [pc EXCEPT ![i] = "mark_error_2"]
    /\ UNCHANGED <<cfg_vars, sandbox, sandbox_id, exc, cur, nlines, install_rc,
                   deleteCalls, raised, orch_vars, render_vars>>
    /\ frame' = NoFrame

\* Where run_sandbox goes when state.mark_error has returned: the except
\* clause has no other statement, the finally block runs. (The variant
\* before it: the loop over the output lines is entered.)
after_mark_error_resumes(msg) == "parse"
after_mark_error(msg) == "finally"

\* state.mark_error: status and error are written, the lock is released.
MarkError2(i) ==
    /\ pc[i] = "mark_error_2"
    /\ results' = mark_error_fields(results, i, exc[i])
    /\ lock' = released(lock, i)
    /\ pc' = [pc EXCEPT ![i] = after_mark_error(exc[i])]
    /\ UNCHANGED <<cfg_vars, sandbox, sandbox_id, exc, cur, nlines, install_rc,
                   deleteCalls, raised, orch_vars, render_vars>>
    /\ frame' = NoFrame

\* `finally: if sandbox:`: whether daytona.delete is called. (The variant
\* before it: a release on the success path only.)
finally_releases_on_success_only(sb, e) == sb = "live" /\ e = ""
finally_releases(sb, e) == sb = "live"

\* `try: daytona.delete(sandbox) except Exception: pass`: whether a failure
\* of delete leaves run_sandbox as an exception. (The variant before it: a
\* delete with no try around it.)
delete_failure_unswallowed(ok) == ~ok
delete_failure_propagates(ok) == FALSE

\* The finally block, and run_sandbox returns.
Finally(i) ==
    /\ pc[i] = "finally"
    /\ IF finally_releases(sandbox[i], exc[i])
       THEN \E ok \in BOOLEAN :
              /\ deleteCalls' = [deleteCalls EXCEPT ![i] = @ + 1]
              /\ sandbox' = [sandbox EXCEPT ![i] =
                               IF ok THEN "deleted" ELSE "delete_failed"]
              /\ raised' = [raised EXCEPT ![i] = delete_failure_propagates(ok)]
       ELSE UNCHANGED <<deleteCalls, sandbox, raised>>
    /\ pc' = [pc EXCEPT ![i] = "done"]
    /\ UNCHANGED <<cfg_vars, results, lock, sandbox_id, exc, cur, nlines,
                   install_rc, orch_vars, render_vars>>
    /\ frame' = NoFrame

\* ------------------------------------------------------------ orchestrator
\* main.py: `workers = args.workers or min(n, 200)`; streamlit_app.py:
\* `workers = min(n_sandboxes, 200)`.
pool_capacity ==
    IF mode = "main" /\ workers_arg # 0
    THEN workers_arg
    ELSE Min(total, PoolCeiling)

\* The statistics of one store state, as build_dashboard names them.
StatsOf(res) ==
    [n_done |-> n_complete(res), n_run |-> n_running(res),
     n_pend |-> total - n_complete(res) - n_running(res) - n_error(res),
     n_err |-> n_error(res),
     n_solved |-> n_solved(res), avg |-> avg_final(res)]

\* Where the submitting thread goes once `submitted` units are submitted.
\* main.py submits every unit and enters the render loop; _run_demo sleeps
\* after a batch that is not the last and then joins. (The variants before
\* it: no sleep between batches, and a sleep after every full batch, the
\* last included.)
after_submit_no_delay(submitted) ==
    IF submitted = total THEN (IF mode = "main" THEN "loop" ELSE "join")
    ELSE "submit"

after_submit_delay_every_batch(submitted) ==
    IF mode = "main"
    THEN IF submitted = total THEN "loop" ELSE "submit"
    ELSE IF submitted > 0 /\ submitted % batch_size = 0 THEN "delay"
         ELSE IF submitted = total THEN "join" ELSE "submit"

after_submit(submitted) ==
    IF mode = "main"
    THEN IF submitted = total THEN "loop" ELSE "submit"
    ELSE IF submitted = total THEN "join"
         ELSE IF submitted > 0 /\ submitted % batch_size = 0 THEN "delay"
              ELSE "submit"

\* main.py: Live(build_dashboard(state, episodes)) renders the empty store
\* (no other thread exists yet), then ThreadPoolExecutor(max_workers=workers)
\* is built: it raises ValueError when max_workers <= 0.
\* streamlit_app.py: the Run button builds the state and starts _run_demo.
OrchStart ==
    /\ sub_pc = "start"
    /\ IF pool_capacity <= 0
       THEN /\ sub_pc' = "crashed"
            /\ run' = "crashed"
            /\ workers' = workers
       ELSE /\ sub_pc' = after_submit(0)
            /\ run' = run
            /\ workers' = pool_capacity
    /\ frame' = IF mode = "main"
                THEN [shown |-> TRUE, stats |-> StatsOf(results),
                      rows |-> results]
                ELSE NoFrame
    /\ UNCHANGED <<cfg_vars, results, lock, worker_vars, next_submit, delays,
                   r_pc, r_pos, r_iter, final, loc, keys>>

\* executor.submit(run_sandbox, i, ...).
Submit(i) ==
    /\ sub_pc = "submit"
    /\ i = next_submit
    /\ i < total
    /\ pc' = [pc EXCEPT ![i] = "queued"]
    /\ next_submit' = i + 1
    /\ sub_pc' = after_submit(i + 1)
    /\ UNCHANGED <<cfg_vars, results, lock, sandbox, sandbox_id, exc, cur,
                   nlines, install_rc, deleteCalls, raised, workers, delays,
                   render_vars>>
    /\ frame' = NoFrame

\* _run_demo: time.sleep(batch_delay) between batches.
Delay ==
    /\ sub_pc = "delay"
    /\ delays' = delays + 1
    /\ sub_pc' = "submit"
    /\ UNCHANGED <<cfg_vars, results, lock, worker_vars, workers, next_submit,
                   render_vars>>
    /\ frame' = NoFrame

\* _run_demo: f.result() for every future and the executor's exit return
\* once every call has finished; the thread ends.
Join ==
    /\ sub_pc = "join"
    /\ AllDone
    /\ sub_pc' = "finished"
    /\ UNCHANGED <<cfg_vars, results, lock, worker_vars, workers, next_submit,
                   delays, render_vars>>
    /\ frame' = NoFrame

\* ------------------------------------------------------------- render loop
\* The unlocked reads of build_dashboard, in the order it makes them. Each
\* is one iteration over state.results.values(). (n_error is read twice in
\* a row, for the `if` and for the text: the two reads are one read here.
\* The read of n_solved for solved_pct is left out, the percentage being no
\* part of the rendering modelled.)
StatOrder == <<"n_done", "n_run", "n_pend", "n_err", "n_solved", "avg">>

\* The position read after position p. The script run of streamlit_app.py
\* reads n_complete, n_running, n_error, n_solved and avg_final (n_solved
\* twice in a row, one read here) and computes no pending count.
next_pos(p) == IF mode = "batched" /\ p = 2 THEN 4 ELSE p + 1

\* The value the read at position p yields on store state res, given the
\* locals read before it.
read_stat(p, res, l) ==
    CASE p = 1 -> n_complete(res)
      [] p = 2 -> n_running(res)
      [] p = 3 -> total - l.n_done - l.n_run - n_error(res)
      [] p = 4 -> n_error(res)
      [] p = 5 -> n_solved(res)
      [] p = 6 -> avg_final(res)

\* main.py: the while condition (`not all(f.done() ...)`) and, once it is
\* false, the final update. streamlit_app.py: a script run; the run is over
\* when the _run_demo thread is no longer alive. A rendering starts: the
\* first iteration over the mapping begins.
LoopCheck ==
    /\ r_pc = "idle"
    /\ run = "running"
    /\ IF mode = "main" THEN sub_pc = "loop"
       ELSE sub_pc \in {"submit", "delay", "join", "finished"}
    /\ final' = IF mode = "main" THEN AllDone ELSE sub_pc = "finished"
    /\ r_pc' = "stats"
    /\ r_pos' = 1
    /\ r_iter' = DOMAIN results
    /\ frame' = NoFrame
    /\ UNCHANGED <<cfg_vars, results, lock, worker_vars, orch_vars, loc, keys,
                   run>>

\* One statistic is read. Its iteration began at some point since the step
\* before; when a key was inserted since then, the insertion may have come
\* while the iteration was under way, which raises RuntimeError (dictionary
\* changed size during iteration) that nothing catches, or before it began.
\* Without the error the value is that of the store as it is now. (In a
\* script run the error ends the script before its time.sleep and st.rerun:
\* no later script run happens.)
ReadStat ==
    /\ r_pc = "stats"
    /\ \/ /\ DOMAIN results # r_iter
          /\ r_pc' = "crashed"
          /\ run' = "crashed"
          /\ r_pos' = 0
          /\ r_iter' = {}
          /\ loc' = NoLocals
       \/ /\ loc' = [loc EXCEPT ![StatOrder[r_pos]] =
                       read_stat(r_pos, results, loc)]
          /\ r_pc' = IF r_pos = Len(StatOrder) THEN "sample" ELSE "stats"
          /\ r_pos' = IF r_pos = Len(StatOrder) THEN 0 ELSE next_pos(r_pos)
          /\ r_iter' = IF r_pos = Len(StatOrder) THEN {} ELSE DOMAIN results
          /\ run' = run
    /\ frame' = NoFrame
    /\ UNCHANGED <<cfg_vars, results, lock, worker_vars, orch_vars, final,
                   keys>>

\* The store after the rows were collected: sorted() builds a new list and
\* the mapping is only iterated. (The variant before it: a collection that
\* fills in a pending record for every index that has none.)
store_after_sample_fills_pending(res) ==
    [k \in DOMAIN res \cup Units |->
       IF k \in DOMAIN res THEN res[k]
       ELSE SandboxResult(PlaceholderId(k), k)]

store_after_sample(res) == res

\* build_dashboard: `with state.lock: sample = sorted(state.results.values(),
\* ...)`: under the lock, a list of references to the records.
\* streamlit_app.py: _build_df builds every row under the lock, the script
\* run's output is complete, and when the _run_demo thread had ended the run
\* is shown as complete and no script run follows.
Sample ==
    /\ r_pc = "sample"
    /\ lock = {}
    /\ IF mode = "main"
       THEN /\ keys' = DOMAIN results
            /\ r_pc' = "table"
            /\ frame' = NoFrame
            /\ loc' = loc
            /\ run' = run
       ELSE /\ keys' = {}
            /\ r_pc' = IF final THEN "end" ELSE "idle"
            /\ frame' = [shown |-> TRUE, stats |-> loc, rows |-> results]
            /\ loc' = NoLocals
            /\ run' = IF final THEN "complete" ELSE run
    /\ results' = store_after_sample(results)
    /\ UNCHANGED <<cfg_vars, lock, worker_vars, orch_vars, r_pos, r_iter,
                   final>>

\* build_dashboard: the table rows are built from the records `sample`
\* refers to, outside the lock, and the rendering is handed to the display.
\* After the final rendering the run is declared complete.
Table ==
    /\ r_pc = "table"
    /\ frame' = [shown |-> TRUE, stats |-> loc,
                 rows |-> [k \in keys |-> results[k]]]
    /\ loc' = NoLocals
    /\ keys' = {}
    /\ r_pc' = IF final THEN "end" ELSE "idle"
    /\ run' = IF final THEN "complete" ELSE run
    /\ UNCHANGED <<cfg_vars, results, lock, worker_vars, orch_vars, r_pos,
                   r_iter, final>>

\* ----------------------------------------------------------- specification
Init ==
    /\ mode \in {"main", "batched"}
    /\ total \in (IF mode = "main" THEN 0 ELSE 1) .. MaxTotal
    /\ workers_arg \in IF mode = "main" THEN 0 .. MaxWorkersArg ELSE {0}
    /\ batch_size \in IF mode = "main" THEN {1} ELSE 1 .. MaxBatch
    /\ workers = 0
    /\ results = <<>>
    /\ lock = {}
    /\ pc = [i \in Indices |-> "unsubmitted"]
    /\ sandbox = [i \in Indices |-> "none"]
    /\ sandbox_id = [i \in Indices |-> PlaceholderId(i)]
    /\ exc = [i \in Indices |-> ""]
    /\ cur = [i \in Indices |-> 0]
    /\ nlines = [i \in Indices |-> 0]
    /\ install_rc = [i \in Indices |-> "none"]
    /\ deleteCalls = [i \in Indices |-> 0]
    /\ raised = [i \in Indices |-> FALSE]
    /\ sub_pc = "start"
    /\ next_submit = 0
    /\ delays = 0
    /\ r_pc = "idle"
    /\ r_pos = 0
    /\ r_iter = {}
    /\ final = FALSE
    /\ loc = NoLocals
    /\ keys = {}
    /\ frame = NoFrame
    /\ run = "running"

Worker(i) ==
    \/ Start(i) \/ Create(i) \/ MarkRunning1(i) \/ MarkRunning2(i)
    \/ Upload(i) \/ Install(i) \/ Exec(i) \/ ParseSkip(i) \/ Update1(i)
    \/ Update2(i) \/ ParseEnd(i) \/ MarkError1(i) \/ MarkError2(i)
    \/ Finally(i)

Next ==
    \/ OrchStart
    \/ \E i \in Indices : Submit(i)
    \/ Delay
    \/ Join
    \/ \E i \in Indices : Worker(i)
    \/ LoopCheck
    \/ ReadStat
    \/ Sample
    \/ Table

Spec == Init /\ [][Next]_vars

\* ------------------------------------------------------------------ claims
Terminal == {"complete", "error"}

\* Every submitted call of run_sandbox has returned.
Joined == next_submit = total /\ sub_pc \in {"loop", "join", "finished"} /\ AllDone

\* C1: once the orchestrator has joined every submitted worker, every index
\* in [0, total) has a record and its status is complete or error.
C1_AllTerminalAfterJoin ==
    Joined =>
      \A i \in Units : i \in DOMAIN results /\ results[i].status \in Terminal

\* C2: a record whose status is complete or error keeps that status in
\* every later step.
C2_TerminalStatusNeverChanges ==
    [][\A i \in DOMAIN results :
         results[i].status \in Terminal =>
           results'[i].status = results[i].status]_vars

\* C3: when update() is applied with a report that lacks status "complete"
\* to a record whose status is complete or error, the status it writes is
\* the status the record had.
C3_IntermediateReportKeepsTerminalStatus ==
    [][\A i \in DOMAIN results :
         ( /\ pc[i] = "parse"
           /\ pc'[i] = "update_2"
           /\ ~is_terminal_report(Lines[cur'[i]].obj)
           /\ results[i].status \in Terminal )
         => results'[i].status = results[i].status]_vars

\* C4: daytona.delete is called at most once per unit; when run_sandbox has
\* returned it was called exactly once if provisioning returned an
\* environment, and never if provisioning failed.
C4_ReleaseExactlyOnce ==
    \A i \in Indices :
      /\ deleteCalls[i] <= 1
      /\ sandbox[i] = "none" => deleteCalls[i] = 0
      /\ pc[i] = "done" =>
           deleteCalls[i] = (IF sandbox[i] = "none" THEN 0 ELSE 1)

\* A unit whose upload failed has returned and its environment was released
\* once.
C4_Witness ==
    \E i \in Indices :
      pc[i] = "done" /\ exc[i] = "upload failed" /\ deleteCalls[i] = 1

\* C5: run_sandbox never ends by raising; a unit whose remote step failed
\* carries the failure as its error record once mark_error is done; a
\* failed teardown writes nothing to the record; while a submitted unit has
\* not returned some worker can take a step; and the run is declared
\* complete only when every unit has returned.
C5_FailuresContained ==
    /\ \A i \in Indices :
         /\ ~raised[i]
         /\ (pc[i] \in {"finally", "done"} /\ exc[i] # "") =>
              /\ i \in DOMAIN results
              /\ results[i].status = "error"
              /\ results[i].error = exc[i]
         /\ (sandbox[i] = "delete_failed" /\ exc[i] = "") =>
              results[i].error = ""
    /\ (\E i \in Units : pc[i] \in InFlight \cup {"queued"}) =>
         ENABLED (\E i \in Indices : Worker(i))
    /\ (run = "complete" \/ sub_pc = "finished") => AllDone

\* Two units were joined: the remote step of one failed, the teardown of
\* the other failed after a terminal report.
C5_Witness ==
    /\ run = "complete"
    /\ \E i, j \in Units :
         /\ i # j
         /\ pc[i] = "done" /\ exc[i] = "exec failed"
         /\ pc[j] = "done" /\ sandbox[j] = "delete_failed"
         /\ results[j].status = "complete"

\* C6: units are submitted once each and in full before the run is declared
\* complete, the run is declared complete only when every call has
\* returned, and the program never stops without declaring the run
\* complete.
C6_SubmitOnceJoinAllComplete ==
    /\ \A i \in Indices : (pc[i] # "unsubmitted") <=> (i < next_submit)
    /\ next_submit <= total
    /\ run = "complete" => (next_submit = total /\ AllDone)
    /\ ~(ENABLED Next) => run = "complete"

\* C7: the calls of run_sandbox under way never outnumber the pool's
\* capacity, and a queued unit has no environment and no record.
C7_PoolBound ==
    /\ Cardinality(Active) <= workers
    /\ \A i \in Indices :
         pc[i] = "queued" => (sandbox[i] = "none" /\ i \notin DOMAIN results)

\* With a pool of one, a unit waits in the queue while the other holds an
\* environment.
C7_Witness ==
    /\ workers = 1
    /\ \E i, j \in Units :
         pc[i] = "queued" /\ pc[j] \in InFlight /\ sandbox[j] = "live"

\* C8: the statistics and the rows of one rendering are those of one store
\* state, so each statistic shown is that statistic of the rows shown.
C8_FrameFromOneStoreState ==
    frame.shown =>
      \A f \in {"n_done", "n_run", "n_err", "n_solved", "avg"} :
        frame.stats[f] = StatsOf(frame.rows)[f]

\* A step in which the render loop reads the store outside the lock: a
\* statistic's iteration, or the fields of the sampled records.
UnlockedRead ==
    \/ r_pc = "stats" /\ r_pos' # r_pos
    \/ r_pc = "table" /\ r_pc' # "table"

\* C9: no unlocked read of the render loop happens while a writer is inside
\* a store operation, and no iteration meets an insertion.
C9_NoReadOverlapsMutation ==
    [][UnlockedRead => (lock = {} /\ r_pc' # "crashed")]_vars

\* C10: the counts of one rendering add up to total and each is the number
\* of indices in that status among the rows shown, an index without a row
\* counting as pending. (build_dashboard computes the pending count; the
\* script run of streamlit_app.py shows the other three, which leave the
\* pending count as the rest of total.)
C10_CountsSumToTotal ==
    frame.shown =>
      LET s == frame.stats
          rws == frame.rows
          pend == IF mode = "main" THEN s.n_pend
                  ELSE total - s.n_run - s.n_done - s.n_err
       IN /\ pend + s.n_run + s.n_done + s.n_err = total
          /\ s.n_done = n_complete(rws)
          /\ s.n_run = n_running(rws)
          /\ s.n_err = n_error(rws)
          /\ pend = total - Cardinality(DOMAIN rws)
                      + Cardinality(WithStatus(rws, "pending"))

\* C11: when run_sandbox has returned after a remote step raised, the unit's
\* record has status error and the failure's message as its error; until
\* the error write a unit whose provisioning failed has no record, and the
\* record that write creates carries the placeholder id.
C11_FailureRecorded ==
    \A i \in Indices :
      /\ (pc[i] = "done" /\ exc[i] # "") =>
           /\ i \in DOMAIN results
           /\ results[i].status = "error"
           /\ results[i].error = exc[i]
      /\ (pc[i] = "except" /\ exc[i] = "create failed") =>
           i \notin DOMAIN results
      /\ (pc[i] = "done" /\ exc[i] = "create failed") =>
           results[i].sandbox_id = PlaceholderId(i)

\* Both units have returned, one after its provisioning failed and one after
\* its install step raised; each record holds its failure.
C11_Witness ==
    \E i, j \in Units :
      /\ pc[i] = "done" /\ exc[i] = "create failed"
      /\ results[i].error = "create failed"
      /\ results[i].sandbox_id = PlaceholderId(i)
      /\ pc[j] = "done" /\ exc[j] = "install failed"
      /\ results[j].status = "error"
      /\ results[j].sandbox_id = AssignedId(j)

\* C12: a unit whose install command returned an unsuccessful result does
\* not go on to the execute step.
C12_InstallFailureIsError ==
    \A i \in Indices : install_rc[i] = "nonzero" => pc[i] # "exec"

\* C13: while run_sandbox goes through the output lines, a line whose
\* consumption changes the store is a line that is valid JSON (so a line
\* that is not changes no record), and no line takes the unit to the
\* except block: the loop goes on or ends.
C13_MalformedLineIgnored ==
    [][\A i \in Indices :
         pc[i] = "parse" =>
           /\ pc'[i] \in {"parse", "update_2", "finally"}
           /\ (nlines'[i] # nlines[i] /\ results' # results) =>
                /\ pc'[i] = "update_2"
                /\ Lines[cur'[i]].brace /\ Lines[cur'[i]].valid]_vars

\* A unit has consumed two lines, none a report, and returned: its record is
\* as mark_running left it.
C13_Witness ==
    \E i \in Units :
      /\ pc[i] = "done" /\ exc[i] = "" /\ nlines[i] = MaxLines
      /\ results[i] =
           [SandboxResult(AssignedId(i), i) EXCEPT !.status = "running"]

\* -------------------------------------------------- the store, called directly
\* The reports a caller may hand to update: the two shapes cartpole_task.py
\* prints (a run that solved the task, a run that did not: solved_at is
\* null), and reports that leave fields out or carry fields of the other
\* shape.
Reports ==
    << [status |-> "complete", final_avg |-> 201, best |-> 300,
        solved |-> TRUE, solved_at |-> 90, elapsed_s |-> 7, lr |-> 5],
       [status |-> "complete", final_avg |-> 150, best |-> 200,
        solved |-> FALSE, solved_at |-> None, elapsed_s |-> 7, lr |-> 5],
       [status |-> "complete", final_avg |-> 150],
       [episode |-> 100, avg_100 |-> 196, solved |-> TRUE, solved_at |-> 90],
       [episode |-> 50, avg_100 |-> 20, solved |-> FALSE, solved_at |-> None],
       [avg_100 |-> 30],
       [status |-> "running", episode |-> 100, best |-> 300, elapsed_s |-> 7,
        lr |-> 5] >>

ReportIds == 1 .. Len(Reports)

\* The unit ids and messages a caller passes.
UnitIds(i) == {PlaceholderId(i), AssignedId(i)}
Messages == {"upload failed", "exec failed"}

\* Everything but the store.
other_vars == <<cfg_vars, lock, worker_vars, orch_vars, render_vars, frame>>

\* A DemoState(total = MaxTotal) that no run_sandbox call touches.
StoreInit ==
    /\ Init
    /\ mode = "main"
    /\ total = MaxTotal
    /\ workers_arg = 0

\* state.update(i, id, report), a whole call: the lock is held throughout.
StoreUpdate ==
    /\ \E i \in Indices, d \in ReportIds : \E id \in UnitIds(i) :
         results' = update(results, i, id, Reports[d])
    /\ UNCHANGED other_vars

\* state.mark_running(i, id), a whole call.
StoreMarkRunning ==
    /\ \E i \in Indices : \E id \in UnitIds(i) :
         results' = mark_running(results, i, id)
    /\ UNCHANGED other_vars

\* state.mark_error(i, id, msg), a whole call.
StoreMarkError ==
    /\ \E i \in Indices, msg \in Messages : \E id \in UnitIds(i) :
         results' = mark_error(results, i, id, msg)
    /\ UNCHANGED other_vars

StoreNext == StoreUpdate \/ StoreMarkRunning \/ StoreMarkError

StoreSpec == StoreInit /\ [][StoreNext]_vars

\* C14: in every store state, update with a report whose status is
\* "complete" leaves the record with status complete, solved equal to the
\* report's solved field (false when absent) and, when the report has a
\* solved_at, that solved_at.
C14_TerminalReportFields ==
    \A i \in Indices, d \in ReportIds : \A id \in UnitIds(i) :
      is_terminal_report(Reports[d]) =>
        LET r == update(results, i, id, Reports[d])[i]
        IN /\ r.status = "complete"
           /\ r.solved = Get(Reports[d], "solved", FALSE)
           /\ "solved_at" \in DOMAIN Reports[d] =>
                r.solved_at = Reports[d].solved_at

\* One record holds a terminal report of a run that solved the task, the
\* other a terminal report that has no solved field.
C14_Witness ==
    \E i, j \in DOMAIN results :
      /\ results[i].status = "complete" /\ results[i].solved
      /\ results[i].solved_at = 90 /\ results[i].avg_100 = 201
      /\ results[j].status = "complete" /\ ~results[j].solved
      /\ results[j].avg_100 = 150 /\ results[j].best = 0

\* C15: in every store state, update with a report that lacks status
\* "complete" does not leave the record complete and leaves its best,
\* solved, solved_at, elapsed_s and lr as they were.
C15_IntermediateKeepsTerminalFields ==
    \A i \in DOMAIN results, d \in ReportIds : \A id \in UnitIds(i) :
      ~is_terminal_report(Reports[d]) =>
        LET r == update(results, i, id, Reports[d])[i]
            o == results[i]
        IN /\ r.status # "complete"
           /\ r.best = o.best
           /\ r.solved = o.solved
           /\ r.solved_at = o.solved_at
           /\ r.elapsed_s = o.elapsed_s
           /\ r.lr = o.lr

\* C16: in every store state, update with any report leaves the record's
\* episode at least what it was.
C16_EpisodeNeverDecreases ==
    \A i \in DOMAIN results, d \in ReportIds : \A id \in UnitIds(i) :
      update(results, i, id, Reports[d])[i].episode >= results[i].episode

\* C17: in every store state, mark_running(index, unit_id) leaves a record
\* for index with status running and that unit_id.
C17_MarkRunningSetsUnitId ==
    \A i \in Indices : \A id \in UnitIds(i) :
      LET res == mark_running(results, i, id)
      IN /\ i \in DOMAIN res
         /\ res[i].status = "running"
         /\ res[i].sandbox_id = id

\* C18: in every store state, mark_error(i, id, m1) followed by
\* mark_error(i, id, m2) leaves status error and error m2, every other
\* field of the record as the first call left it, and the other records as
\* they were.
C18_MarkErrorIdempotent ==
    \A i \in Indices, m1 \in Messages, m2 \in Messages : \A id \in UnitIds(i) :
      LET res1 == mark_error(results, i, id, m1)
          res2 == mark_error(res1, i, id, m2)
      IN /\ res2[i].status = "error"
         /\ res2[i].error = m2
         /\ res2[i] = [res1[i] EXCEPT !.error = m2]
         /\ DOMAIN res2 = DOMAIN res1
         /\ \A k \in DOMAIN res1 \ {i} : res2[k] = res1[k]

\* A record that held progress was marked as failed, with the message a
\* second mark_error leaves.
C18_Witness ==
    \E i \in DOMAIN results :
      /\ results[i].status = "error"
      /\ results[i].error = "exec failed"
      /\ results[i].episode = 100
      /\ results[i].sandbox_id = AssignedId(i)

\* C19: the store lock has at most one holder, and its holder is a unit
\* inside the in-memory body of mark_running, update or mark_error: no unit
\* that is queued, inside a remote operation (create, upload, install, exec,
\* delete) or between store calls holds it, and the render loop, which
\* takes it only for the copy made in one step, holds it in no state.
C19_LockOnlyInStoreBody ==
    /\ Cardinality(lock) <= 1
    /\ lock \subseteq Indices
    /\ \A i \in Indices :
         i \in lock <=> pc[i] \in {"mark_running_2", "update_2", "mark_error_2"}

\* One unit is inside a store operation, holding the lock, while the other
\* is inside its task exec.
C19_Witness ==
    \E i, j \in Units :
      /\ lock = {i}
      /\ pc[i] = "update_2"
      /\ pc[j] = "exec"
      /\ r_pc = "idle"

\* C20: the render loop ends only when every worker has returned; the
\* rendering that ends it shows the final store state (rows and
\* statistics); and the program does not stop before the render loop has
\* ended with that rendering.
C20_FinalSnapshot ==
    /\ r_pc = "end" => AllDone
    /\ (r_pc = "end" /\ frame.shown) =>
         /\ frame.rows = results
         /\ \A f \in {"n_done", "n_run", "n_err", "n_solved", "avg"} :
              frame.stats[f] = StatsOf(results)[f]
    /\ ~(ENABLED Next) => r_pc = "end"

\* A step of the render loop: one of LoopCheck, ReadStat, Sample, Table.
RenderStep == <<r_pc, r_pos, final>>' # <<r_pc, r_pos, final>>

\* C21: a step of the render loop (a statistic read, the collection of the
\* rows, the building of the table) leaves the mapping, every record and
\* total as they were. (DemoState.start_time, written by __init__ alone, is
\* no variable of the model.)
C21_RenderLeavesStore ==
    [][RenderStep => (results' = results /\ total' = total)]_vars

\* A rendering was just handed over while the store holds a record of a
\* unit that is still at work.
C21_Witness ==
    /\ frame.shown
    /\ \E i \in Units :
         /\ pc[i] \in InFlight
         /\ i \in DOMAIN results
         /\ results[i].status = "running"
    /\ \E j \in Units : j \notin DOMAIN results

\* ------------------------------------------------- batched admission at size
\* _run_demo with up to MaxBatchTotal units in batches of up to MaxBatchSize.
\* The units are the pool's calls of run_sandbox, each taken as its start
\* and, in one step, the rest of the call; nothing is rendered.
BatchIndices == 0 .. (MaxBatchTotal - 1)

BatchInit ==
    /\ mode = "batched"
    /\ total \in 1 .. MaxBatchTotal
    /\ workers_arg = 0
    /\ batch_size \in 1 .. MaxBatchSize
    /\ workers = 0
    /\ results = <<>>
    /\ lock = {}
    /\ pc = [i \in BatchIndices |-> "unsubmitted"]
    /\ sandbox = [i \in BatchIndices |-> "none"]
    /\ sandbox_id = [i \in BatchIndices |-> PlaceholderId(i)]
    /\ exc = [i \in BatchIndices |-> ""]
    /\ cur = [i \in BatchIndices |-> 0]
    /\ nlines = [i \in BatchIndices |-> 0]
    /\ install_rc = [i \in BatchIndices |-> "none"]
    /\ deleteCalls = [i \in BatchIndices |-> 0]
    /\ raised = [i \in BatchIndices |-> FALSE]
    /\ sub_pc = "start"
    /\ next_submit = 0
    /\ delays = 0
    /\ r_pc = "idle"
    /\ r_pos = 0
    /\ r_iter = {}
    /\ final = FALSE
    /\ loc = NoLocals
    /\ keys = {}
    /\ frame = NoFrame
    /\ run = "running"

\* run_sandbox from daytona.create to its return, in one step: provisioning
\* fails and the error is recorded, or every remote step returns, the one
\* terminal report is applied and the environment is deleted.
RunRest(i) ==
    /\ pc[i] = "create"
    /\ lock = {}
    /\ \/ /\ exc' = [exc EXCEPT ![i] = "create failed"]
          /\ results' = mark_error(results, i, sandbox_id[i], "create failed")
          /\ UNCHANGED <<sandbox, sandbox_id, nlines, deleteCalls>>
       \/ /\ sandbox' = [sandbox EXCEPT ![i] = "deleted"]
          /\ sandbox_id' = [sandbox_id EXCEPT ![i] = AssignedId(i)]
          /\ nlines' = [nlines EXCEPT ![i] = 1]
          /\ deleteCalls' = [deleteCalls EXCEPT ![i] = 1]
          /\ results' = update(mark_running(results, i, AssignedId(i)), i,
                               AssignedId(i), Lines[Len(Lines)].obj)
          /\ exc' = exc
    /\ pc' = [pc EXCEPT ![i] = "done"]
    /\ UNCHANGED <<cfg_vars, lock, cur, install_rc, raised, orch_vars,
                   render_vars, frame>>

BatchNext ==
    \/ OrchStart
    \/ \E i \in BatchIndices : Submit(i)
    \/ Delay
    \/ Join
    \/ \E i \in BatchIndices : Start(i)
    \/ \E i \in BatchIndices : RunRest(i)

BatchSpec == BatchInit /\ [][BatchNext]_vars

\* C22: under batched admission the submitted units are at every moment the
\* indices below next_submit (units are submitted one by one in ascending
\* order, a batch in full before the next), and a unit of batch k (counted
\* from 0) is submitted only when k delays have elapsed.
C22_BatchOrder ==
    /\ next_submit <= total
    /\ \A i \in BatchIndices : (pc[i] # "unsubmitted") <=> (i < next_submit)
    /\ \A i \in BatchIndices :
         i < next_submit => delays >= i \div batch_size

\* Four units in batches of two: all are submitted after one delay, and the
\* last unit has returned while the first has not.
C22_Witness ==
    /\ total = 4 /\ batch_size = 2
    /\ next_submit = 4 /\ delays = 1
    /\ pc[3] = "done" /\ pc[0] # "done"

\* ceil(n / b)
Ceil(n, b) == (n + b - 1) \div b

\* C23: under batched admission the sleep is entered after a full batch
\* that is not the last, whatever the batch's units are doing (the sleep can
\* be taken at once); the delays made so far are the batches submitted in
\* full before the current one; and once every unit is submitted exactly
\* ceil(total / batch_size) - 1 delays were made.
C23_DelayCount ==
    /\ sub_pc = "delay" =>
         /\ next_submit < total
         /\ next_submit % batch_size = 0
         /\ delays = next_submit \div batch_size - 1
         /\ ENABLED Delay
    /\ sub_pc = "submit" => delays = next_submit \div batch_size
    /\ sub_pc \in {"join", "finished"} =>
         /\ next_submit = total
         /\ delays = Ceil(total, batch_size) - 1

\* Four units in batches of three: the one delay was made and the last batch
\* submitted while a unit of the first batch is still at work.
C23_Witness ==
    /\ total = 4 /\ batch_size = 3
    /\ sub_pc = "join" /\ delays = 1
    /\ pc[0] = "create"

\* ------------------------------------------------ the workers under fairness
\* The pool of streamlit_app.py's _run_demo and its workers, with no script
\* run rendering. A step is fair when the code makes it end: every
\* in-memory step, the lock (held only for in-memory bodies), time.sleep,
\* and the two remote calls that are given a timeout (the install exec,
\* timeout=120, and the task exec, timeout=30). daytona.create,
\* sandbox.fs.upload_file and daytona.delete are called with no timeout:
\* nothing in the code makes them return.
TimeoutInit == Init /\ mode = "batched"

TimeoutNext ==
    \/ OrchStart
    \/ \E i \in Indices : Submit(i)
    \/ Delay
    \/ Join
    \/ \E i \in Indices : Worker(i)

\* The remote calls of run_sandbox, by the position that makes them.
RemoteSteps == {"create", "upload", "install", "exec", "finally"}

TimeoutFairness ==
    /\ WF_vars(OrchStart)
    /\ WF_vars(Delay)
    /\ WF_vars(Join)
    /\ \A i \in Indices :
         /\ WF_vars(Submit(i))
         /\ WF_vars(Start(i))
         /\ SF_vars(MarkRunning1(i))
         /\ WF_vars(MarkRunning2(i))
         /\ WF_vars(Install(i))
         /\ WF_vars(Exec(i))
         /\ WF_vars(ParseEnd(i))
         /\ WF_vars(Update2(i))
         /\ SF_vars(MarkError1(i))
         /\ WF_vars(MarkError2(i))
         /\ WF_vars(Finally(i) /\ sandbox[i] = "none")

TimeoutSpec == TimeoutInit /\ [][TimeoutNext]_vars /\ TimeoutFairness

\* C24: a unit that is inside a remote step eventually leaves it, whichever
\* step it is, so that no hang holds the pool slot forever.
C24_RemoteStepEnds ==
    \A i \in Indices : \A s \in RemoteSteps \ {"finally"} :
      (pc[i] = s) ~> (pc[i] # s)

\* C25: in a run, a record whose error is not empty has status error.
C25_ErrorDetailOnlyOnError ==
    \A i \in DOMAIN results :
      results[i].error # "" => results[i].status = "error"

\* One unit was running when its upload failed and has its error record;
\* the other is complete and carries no message.
C25_Witness ==
    \E i, j \in Units :
      /\ pc[i] = "done" /\ exc[i] = "upload failed"
      /\ results[i].status = "error" /\ results[i].error = "upload failed"
      /\ pc[j] = "done"
      /\ results[j].status = "complete" /\ results[j].error = ""

\* --------------------------------------------- the statistics of a final store
\* main.py when every worker has returned, for every store of up to
\* MaxStatRecords records with the final averages 150, 200 and 210: the
\* while loop ends and the final rendering is made.
StatIndices == 0 .. (MaxStatRecords - 1)
StatScores == {150, 200, 210}
StatStatuses == {"running", "complete", "error"}

StatRecord(i, st, score, sv) ==
    [SandboxResult(AssignedId(i), i) EXCEPT
       !.status = st, !.avg_100 = score, !.solved = sv]

StatStores ==
    UNION { { [i \in 0 .. (n - 1) |-> StatRecord(i, f[i][1], f[i][2], f[i][3])] :
                f \in [0 .. (n - 1) -> StatStatuses \X StatScores \X BOOLEAN] } :
            n \in 0 .. MaxStatRecords }

StatsInit ==
    /\ mode = "main"
    /\ results \in StatStores
    /\ total = Cardinality(DOMAIN results)
    /\ total >= 1
    /\ workers_arg = 0
    /\ batch_size = 1
    /\ workers = total
    /\ lock = {}
    /\ pc = [i \in StatIndices |-> IF i < total THEN "done" ELSE "unsubmitted"]
    /\ sandbox = [i \in StatIndices |-> IF i < total THEN "deleted" ELSE "none"]
    /\ sandbox_id = [i \in StatIndices |->
                       IF i < total THEN AssignedId(i) ELSE PlaceholderId(i)]
    /\ exc = [i \in StatIndices |-> ""]
    /\ cur = [i \in StatIndices |-> 0]
    /\ nlines = [i \in StatIndices |-> 0]
    /\ install_rc = [i \in StatIndices |-> "none"]
    /\ deleteCalls = [i \in StatIndices |-> IF i < total THEN 1 ELSE 0]
    /\ raised = [i \in StatIndices |-> FALSE]
    /\ sub_pc = "loop"
    /\ next_submit = total
    /\ delays = 0
    /\ r_pc = "idle"
    /\ r_pos = 0
    /\ r_iter = {}
    /\ final = FALSE
    /\ loc = NoLocals
    /\ keys = {}
    /\ frame = NoFrame
    /\ run = "running"

StatsNext == LoopCheck \/ ReadStat \/ Sample \/ Table

StatsSpec == StatsInit /\ [][StatsNext]_vars

\* The sum of avg_100 over the complete rows.
CompleteSum(rows) ==
    LET v(k) == IF k \in DOMAIN rows /\ rows[k].status = "complete"
                THEN rows[k].avg_100 ELSE 0
    IN v(0) + v(1) + v(2)

\* C26: in a rendering of a store no worker writes any more, the mean final
\* score (in tenths) is 0 when no row is complete and otherwise the tenth
\* nearest to the mean of avg_100 over the complete rows, three complete
\* rows with 200, 150 and 210 give 186.7, and the solved count is the number
\* of rows whose solved flag is set. (No mean of these scores lies halfway
\* between two tenths.)
C26_MeanOverComplete ==
    frame.shown =>
      LET rows == frame.rows
          n == Cardinality(WithStatus(rows, "complete"))
          sum == CompleteSum(rows)
          a == frame.stats.avg
      IN /\ n = 0 => a = 0
         /\ n > 0 => /\ 2 * (a * n - 10 * sum) <= n
                     /\ 2 * (10 * sum - a * n) <= n
         /\ (n = 3 /\ {rows[k].avg_100 : k \in DOMAIN rows} = {200, 150, 210})
              => a = 1867
         /\ frame.stats.n_solved = Cardinality({k \in DOMAIN rows : rows[k].solved})

\* The rendering of three complete units with final averages 200, 150 and
\* 210 of which only the one with 150 is marked solved.
C26_Witness ==
    /\ frame.shown
    /\ DOMAIN frame.rows = {0, 1, 2}
    /\ \A k \in {0, 1, 2} : frame.rows[k].status = "complete"
    /\ frame.rows[0].avg_100 = 200 /\ ~frame.rows[0].solved
    /\ frame.rows[1].avg_100 = 150 /\ frame.rows[1].solved
    /\ frame.rows[2].avg_100 = 210 /\ ~frame.rows[2].solved
    /\ frame.stats.avg = 1867
    /\ frame.stats.n_solved = 1

\* ------------------------------------------------ the shape of the store
\* C27: whenever no store operation is in progress, no record is pending,
\* the record under key k has index k and k is below total; a key appears
\* only in the first write of its unit, as a fresh record under its own
\* index, and a key that is there stays there with the same index.
C27_StoreShape ==
    [][/\ lock' = {} =>
            \A k \in DOMAIN results' :
              /\ results'[k].status # "pending"
              /\ results'[k].index = k
              /\ k \in Units
       /\ \A k \in DOMAIN results' \ DOMAIN results :
            /\ pc[k] \in {"mark_running", "except"}
            /\ results'[k] = SandboxResult(sandbox_id[k], k)
       /\ \A k \in DOMAIN results :
            /\ k \in DOMAIN results'
            /\ results'[k].index = results[k].index]_vars

\* Both units have been written several times (inserted, marked running,
\* one updated to complete, the other marked failed) and no operation is in
\* progress.
C27_Witness ==
    /\ lock = {}
    /\ DOMAIN results = {0, 1}
    /\ results[0].status = "complete" /\ results[0].index = 0
    /\ results[1].status = "error" /\ results[1].error = "exec failed"
    /\ results[1].index = 1

\* ------------------------------------------------- the writes of one unit
\* A step in which the record of unit i is inserted or changed.
Wrote(i) ==
    /\ i \in DOMAIN results'
    /\ i \notin DOMAIN results \/ results'[i] # results[i]

\* C28: the record of unit i is written only between the creation of its
\* environment and its release, by a worker that has not returned; the
\* writes of mark_running are made with a provisioned environment; an
\* update finds the record mark_running left, with no failure recorded; the
\* write of mark_error is followed by the finally block, from where nothing
\* is written; and the release is made in the finally block only.
C28_UnitOrder ==
    [][\A i \in Indices :
         /\ Wrote(i) =>
              /\ pc[i] \in {"mark_running", "mark_running_2", "parse",
                            "update_2", "except", "mark_error_2"}
              /\ deleteCalls[i] = 0
         /\ (Wrote(i) /\ pc[i] \in {"mark_running", "mark_running_2"}) =>
              sandbox[i] = "live"
         /\ (Wrote(i) /\ pc[i] \in {"parse", "update_2"}) =>
              /\ i \in DOMAIN results
              /\ results[i].status \in {"running", "complete"}
              /\ exc[i] = ""
              /\ sandbox[i] = "live"
         /\ (Wrote(i) /\ pc[i] = "mark_error_2") => pc'[i] = "finally"
         /\ deleteCalls'[i] # deleteCalls[i] =>
              pc[i] = "finally" /\ pc'[i] = "done"]_vars

\* One unit was marked running, failed at upload, was marked failed,
\* released once and returned; another was marked running, updated to
\* complete, released once and returned.
C28_Witness ==
    \E i \in Units :
      /\ pc[i] = "done"
      /\ deleteCalls[i] = 1
      /\ exc[i] = "upload failed"
      /\ results[i].status = "error"
      /\ \E j \in Units :
           /\ pc[j] = "done" /\ deleteCalls[j] = 1
           /\ results[j].status = "complete"

\* A step of the worker of unit i.
WorkerStep(i) == pc'[i] # pc[i] \/ nlines'[i] # nlines[i]

\* C29: a step of the worker of unit i leaves total, and for every other
\* index j the presence and the whole record of j, as they were; and every
\* change of the store is made by such a step to the record of its own unit.
C29_OwnIndexOnly ==
    [][/\ \A i \in Indices :
            WorkerStep(i) =>
              /\ total' = total
              /\ \A j \in Indices \ {i} :
                   /\ j \in DOMAIN results' <=> j \in DOMAIN results
                   /\ j \in DOMAIN results => results'[j] = results[j]
       /\ results' # results =>
            \E i \in Units : WorkerStep(i) /\ Wrote(i)]_vars

\* Unit 1 is inside update, its status written, while the record of unit 0
\* is complete with its final fields.
C29_Witness ==
    /\ lock = {1}
    /\ pc[1] = "update_2"
    /\ 0 \in DOMAIN results
    /\ results[0].status = "complete" /\ results[0].avg_100 = 201
    /\ results[1].status = "running"

\* C30: the solved count is at most the complete count.
C30_SolvedWithinComplete ==
    n_solved(results) <= n_complete(results)

=============================================================================
